---- MODULE Spec2Model ----
(***************************************************************************)
(* Model of easyqueue's asynchronous queue client (async_queue.py):        *)
(* the _ensure_connected retry guard, the guarded operations put, consume, *)
(* ack and reject, the unguarded stop_consumer, and the per-delivery       *)
(* _ConsumptionHandler.  One action is one run of a coroutine between two  *)
(* suspension points of the single-threaded event loop.                    *)
(***************************************************************************)
EXTENDS Integers, Sequences, FiniteSets, TLC

\* ------------------------------------------------------------------ bounds
NumCallers == 2        \* coroutines of the application that call the client
MaxCalls == 3          \* calls made in one behaviour
MaxAttempts == 2       \* connect attempts made in one behaviour
MaxChannels == 2       \* channels opened in one behaviour
MaxDeliveries == 2     \* deliveries made by the broker in one behaviour

\* ------------------------------------------------------- program constants
PrefetchCount == 100   \* default of the constructor's prefetch_count

Callers == 1..NumCallers
NoChannel == 0         \* connection.channel is None
ConsumerNames == {0, 1}            \* 0 is the default consumer_name ""
GeneratedTag(n) == 10 + n          \* tag the broker generates for name ""
QueueNames == {"orders"}
Str(t) == [kind |-> "str", text |-> t]
Bytes(t) == [kind |-> "bytes", text |-> t]
NoPayload == [kind |-> "none", text |-> ""]
DataVals == {"None", "d1"}         \* data argument of put: None, "d1"
SerVals == {Str(""), Str("raw")}   \* serialized_data argument of put
PutDataVals == DataVals \cup {"zero"}          \* "zero" is the integer 0
PutSerVals == SerVals \cup {Bytes("raw")}
HandlerErrors == {"KeyError", "RuntimeError"}

VARIABLES
    is_running,     \* AsyncJsonQueue.is_running
    logger,         \* whether a logger was given to the constructor
    connected,      \* connection.is_connected
    channel,        \* connection.channel (NoChannel or a channel id)
    openChannels,   \* channels the broker still serves
    chanCount,      \* channels opened so far
    calls,          \* per caller: the call it is making
    callCount,      \* calls started so far
    attemptCount,   \* connect attempts started so far
    reported,       \* retry_count of the latest report to logger.error
    consumers,      \* active registrations at the broker: <<channel, tag>>
    genCount,       \* consumer tags generated by the broker
    delivered,      \* deliveries handed to handle_message by the broker
    envelopes,      \* AMQPMessage objects built, in order
    tasks,          \* handler tasks spawned with loop.create_task, in order
    hmReturns,      \* what handle_message returned for each delivery
    onCurrent,      \* messages delivered on what was then connection.channel
    acked           \* acknowledgment frames sent: <<channel, tag, kind>>

connVars == <<connected, channel, openChannels, chanCount>>
callVars == <<calls, callCount, attemptCount, reported, acked>>
brokerVars == <<consumers, genCount>>
handlerVars == <<delivered, envelopes, tasks, hmReturns, onCurrent>>
vars == <<is_running, logger, connVars, callVars, brokerVars, handlerVars>>

\* ------------------------------------------------------------ call records
NoMsg == [id |-> 0, channel |-> NoChannel, delivery_tag |-> 0]

IdleCall ==
    [op |-> "none", pc |-> "idle",
     data |-> "None", ser |-> Str(""), msg |-> NoMsg, name |-> 0, queue |-> "",
     retries |-> 0, attempts |-> 0, fails |-> 0, reports |-> 0,
     opStarts |-> 0, connAtStart |-> FALSE,
     trace |-> <<>>, qosArg |-> 0, chanUsed |-> NoChannel, tag |-> 0,
     startTag |-> 0, published |-> NoPayload, result |-> "none", ret |-> 0]

Finished(c, res) == [c EXCEPT !.pc = "done", !.result = res]

\* ------------------------------------------------- AsyncJsonQueue.__init__
Init ==
    /\ is_running = TRUE
    /\ logger \in BOOLEAN
    /\ connected = FALSE
    /\ channel = NoChannel
    /\ openChannels = {}
    /\ chanCount = 0
    /\ calls = [i \in Callers |-> IdleCall]
    /\ callCount = 0
    /\ attemptCount = 0
    /\ reported = 0
    /\ consumers = {}
    /\ genCount = 0
    /\ delivered = 0
    /\ envelopes = <<>>
    /\ tasks = <<>>
    /\ hmReturns = <<>>
    /\ onCurrent = {}
    /\ acked = {}

\* ------------------------------------------------ external collaborators
\* AMQPConnection._connect() when it succeeds, with n channels opened so far
\* of which the broker serves open: the connection is connected and its
\* channel is a new one.
connect(open, n) ==
    [connected |-> TRUE, channel |-> n + 1, open |-> open \cup {n + 1}]

\* Channel primitives of the protocol library: a frame can be written on a
\* channel only while the broker still serves it.
ChannelResult(ch, open) ==
    IF ch = NoChannel THEN "AttributeError"
    ELSE IF ch \in open THEN "ok" ELSE "ChannelClosed"

\* ------------------------------------------------------------ serializer
Truthy(v) == v \notin {"None", "", "zero"}

serialize(d) ==
    Str(CASE d = "None" -> "null" [] d = "d1" -> "\"d1\"" [] d = "zero" -> "0")

encode(s) == Bytes(s.text)

\* ---------------------------------------------------- wrapped operations
\* Each takes the call record c, the connection state after the guard
\* (ch, open) and the frames acknowledged so far, and gives the call record
\* and the frames after the operation has run to its first suspension.
put(c, ch, open, ackd) ==
    IF Truthy(c.data) /\ Truthy(c.ser.text)
    THEN [call |-> Finished(c, "ValueError"), acked |-> ackd]
    ELSE LET serialized == IF Truthy(c.data) THEN serialize(c.data) ELSE c.ser
             payload == IF serialized.kind # "bytes" THEN encode(serialized)
                        ELSE serialized
             res == ChannelResult(ch, open)
         IN  [call |-> Finished([c EXCEPT !.published =
                                    IF res = "ok" THEN payload ELSE @,
                                  !.chanUsed = ch], res),
              acked |-> ackd]

\* Mutant of ack: the frame is written on the connection's channel.
ack_on_connection(c, ch, open, ackd) ==
    LET res == ChannelResult(ch, open)
    IN  [call |-> Finished([c EXCEPT !.chanUsed = ch], res),
         acked |-> IF res = "ok"
                   THEN ackd \cup {<<ch, c.msg.delivery_tag, "ack">>}
                   ELSE ackd]

\* ack(msg): basic_client_ack(msg.delivery_tag) on msg.channel
ack(c, ch, open, ackd) ==
    LET res == ChannelResult(c.msg.channel, open)
    IN  [call |-> Finished([c EXCEPT !.chanUsed = c.msg.channel], res),
         acked |-> IF res = "ok"
                   THEN ackd \cup {<<c.msg.channel, c.msg.delivery_tag, "ack">>}
                   ELSE ackd]

\* reject(msg): basic_reject(msg.delivery_tag) on msg.channel
reject(c, ch, open, ackd) ==
    LET res == ChannelResult(c.msg.channel, open)
    IN  [call |-> Finished([c EXCEPT !.chanUsed = c.msg.channel], res),
         acked |-> IF res = "ok"
                   THEN ackd \cup {<<c.msg.channel, c.msg.delivery_tag, "reject">>}
                   ELSE ackd]

\* on_before_start_consumption has returned: basic_qos on connection.channel.
consume_qos(c, ch, open) ==
    IF ch = NoChannel THEN Finished(c, "AttributeError")
    ELSE LET c1 == [c EXCEPT !.trace = Append(@, "qos"),
                             !.qosArg = PrefetchCount, !.chanUsed = ch]
         IN  IF ch \in open THEN [c1 EXCEPT !.pc = "qos"]
             ELSE Finished(c1, "ChannelClosed")

\* Mutant of consume: the delegate is not told before consumption starts.
consume_unannounced(c, ch, open, ackd) ==
    [call |-> consume_qos(c, ch, open), acked |-> ackd]

\* consume up to its first await: the handler is built and
\* delegate.on_before_start_consumption is called.
consume(c, ch, open, ackd) ==
    [call |-> [c EXCEPT !.pc = "before", !.trace = Append(@, "before")],
     acked |-> ackd]

\* basic_qos has returned: basic_consume on connection.channel.
consume_register(c, ch, open) ==
    LET c1 == [c EXCEPT !.trace = Append(@, "basic_consume"), !.chanUsed = ch]
    IN  IF ch \in open THEN [c1 EXCEPT !.pc = "basic_consume"]
        ELSE Finished(c1, "ChannelClosed")

\* basic_consume has returned tag: on_consumption_start(consumer_tag).
consume_started(c, tag) ==
    [c EXCEPT !.tag = tag, !.trace = Append(@, "on_start"),
              !.startTag = tag, !.pc = "on_start"]

\* on_consumption_start has returned: return consumer_tag.
consume_return(c) == [Finished(c, "ok") EXCEPT !.ret = c.tag]

\* Mutant of stop_consumer: nothing to stop without a channel.
stop_consumer_silent(c, ch, open, cons) ==
    IF ch = NoChannel
    THEN [call |-> Finished(c, "ok"), consumers |-> cons]
    ELSE LET c1 == [c EXCEPT !.trace = Append(@, "basic_cancel"),
                             !.chanUsed = ch]
         IN  IF ch \in open
             THEN [call |-> Finished(c1, "ok"),
                   consumers |-> cons \ {<<ch, c.tag>>}]
             ELSE [call |-> Finished(c1, "ChannelClosed"), consumers |-> cons]

\* stop_consumer, which the guard does not wrap.
stop_consumer(c, ch, open, cons) ==
    IF ch = NoChannel
    THEN [call |-> Finished(c, "ConnectionError"), consumers |-> cons]
    ELSE LET c1 == [c EXCEPT !.trace = Append(@, "basic_cancel"),
                             !.chanUsed = ch]
         IN  IF ch \in open
             THEN [call |-> Finished(c1, "ok"),
                   consumers |-> cons \ {<<ch, c.tag>>}]
             ELSE [call |-> Finished(c1, "ChannelClosed"), consumers |-> cons]

\* ------------------------------------------------------ _ensure_connected
\* Mutant of LoopCond: the state of the connection is not read.
LoopCond_while_running(run, conn) == run

\* Mutant of LoopCond: the loop goes on until connected.
LoopCond_until_connected(run, conn) == ~conn

\* while self.is_running and not self.connection.is_connected
LoopCond(run, conn) == run /\ ~conn

\* return await coro(self, *args, **kwargs)
Wrapped(c, conn, ch, open, ackd) ==
    LET c1 == [c EXCEPT !.opStarts = @ + 1, !.connAtStart = conn]
    IN  CASE c.op = "put" -> put(c1, ch, open, ackd)
          [] c.op = "ack" -> ack(c1, ch, open, ackd)
          [] c.op = "reject" -> reject(c1, ch, open, ackd)
          [] c.op = "consume" -> consume(c1, ch, open, ackd)

\* Mutant of LoopOrRun: a caller makes no attempt while another caller's is
\* in flight, and sleeps.
LoopOrRun_single_flight(i, c, conn, ch, open) ==
    IF LoopCond(is_running, conn)
    THEN IF \E j \in Callers : calls[j].pc = "connecting"
         THEN /\ attemptCount' = attemptCount
              /\ calls' = [calls EXCEPT ![i] = [c EXCEPT !.pc = "sleeping"]]
              /\ acked' = acked
         ELSE /\ attemptCount < MaxAttempts
              /\ attemptCount' = attemptCount + 1
              /\ calls' = [calls EXCEPT ![i] =
                             [c EXCEPT !.pc = "connecting", !.attempts = @ + 1]]
              /\ acked' = acked
    ELSE LET r == Wrapped(c, conn, ch, open, acked)
         IN  /\ attemptCount' = attemptCount
             /\ calls' = [calls EXCEPT ![i] = r.call]
             /\ acked' = r.acked

\* Mutant of LoopOrRun: the wrapper gives up after one retry.
LoopOrRun_one_retry(i, c, conn, ch, open) ==
    IF LoopCond(is_running, conn) /\ c.retries < 1
    THEN /\ attemptCount < MaxAttempts
         /\ attemptCount' = attemptCount + 1
         /\ calls' = [calls EXCEPT ![i] =
                        [c EXCEPT !.pc = "connecting", !.attempts = @ + 1]]
         /\ acked' = acked
    ELSE LET r == Wrapped(c, conn, ch, open, acked)
         IN  /\ attemptCount' = attemptCount
             /\ calls' = [calls EXCEPT ![i] = r.call]
             /\ acked' = r.acked

\* The loop test of the wrapper, then either a new connect attempt or the
\* wrapped operation, for the call c of caller i in connection state
\* (conn, ch, open).
LoopOrRun(i, c, conn, ch, open) ==
    IF LoopCond(is_running, conn)
    THEN /\ attemptCount < MaxAttempts
         /\ attemptCount' = attemptCount + 1
         /\ calls' = [calls EXCEPT ![i] =
                        [c EXCEPT !.pc = "connecting", !.attempts = @ + 1]]
         /\ acked' = acked
    ELSE LET r == Wrapped(c, conn, ch, open, acked)
         IN  /\ attemptCount' = attemptCount
             /\ calls' = [calls EXCEPT ![i] = r.call]
             /\ acked' = r.acked

\* Callers are interchangeable: a new call takes the first idle one.
CanCall(i) ==
    /\ calls[i].pc = "idle"
    /\ \A j \in Callers : j < i => calls[j].pc # "idle"
    /\ callCount < MaxCalls

NewCall(op) == [IdleCall EXCEPT !.op = op]

\* A caller awaits a guarded operation: retries = 0, then the loop.
Call(i, c) ==
    /\ CanCall(i)
    /\ callCount' = callCount + 1
    /\ LoopOrRun(i, c, connected, channel, openChannels)
    /\ UNCHANGED <<is_running, logger, connVars, reported, brokerVars,
                   handlerVars>>

CallPut(i) ==
    \E d \in DataVals, s \in SerVals :
        Call(i, [NewCall("put") EXCEPT !.data = d, !.ser = s])

\* put with any of its kinds of argument: falsy data, bytes.
CallPutAny(i) ==
    \E d \in PutDataVals, s \in PutSerVals :
        Call(i, [NewCall("put") EXCEPT !.data = d, !.ser = s])

CallConsume(i) ==
    \E q \in QueueNames, n \in ConsumerNames :
        Call(i, [NewCall("consume") EXCEPT !.queue = q, !.name = n])

CallAck(i) ==
    \E k \in 1..Len(envelopes) :
        Call(i, [NewCall("ack") EXCEPT !.msg = envelopes[k]])

CallReject(i) ==
    \E k \in 1..Len(envelopes) :
        Call(i, [NewCall("reject") EXCEPT !.msg = envelopes[k]])

\* Mutant of ConnectOk: the reconnect registers again, on the new channel,
\* the consumers whose tags the broker generated.
ConnectOk_resubscribing(i) ==
    /\ calls[i].pc = "connecting"
    /\ chanCount < MaxChannels
    /\ chanCount' = chanCount + 1
    /\ LET conn == connect(openChannels, chanCount)
       IN  /\ connected' = conn.connected
           /\ channel' = conn.channel
           /\ openChannels' = conn.open
    /\ LET r == Wrapped(calls[i], connected', channel', openChannels', acked)
       IN  /\ calls' = [calls EXCEPT ![i] = r.call]
           /\ acked' = r.acked
    /\ consumers' = consumers \cup
                       {<<channel', GeneratedTag(n)>> : n \in 1..genCount}
    /\ UNCHANGED <<is_running, logger, callCount, attemptCount,
                   reported, genCount, handlerVars>>

\* connection._connect() succeeds: the connection is connected and has a
\* new channel; break, then the wrapped operation.
ConnectOk(i) ==
    /\ calls[i].pc = "connecting"
    /\ chanCount < MaxChannels
    /\ chanCount' = chanCount + 1
    /\ LET conn == connect(openChannels, chanCount)
       IN  /\ connected' = conn.connected
           /\ channel' = conn.channel
           /\ openChannels' = conn.open
    /\ LET r == Wrapped(calls[i], connected', channel', openChannels', acked)
       IN  /\ calls' = [calls EXCEPT ![i] = r.call]
           /\ acked' = r.acked
    /\ UNCHANGED <<is_running, logger, callCount, attemptCount,
                   reported, brokerVars, handlerVars>>

\* Mutant of ConnectFail: the error of _connect reaches the caller.
ConnectFail_raised(i) ==
    /\ calls[i].pc = "connecting"
    /\ calls' = [calls EXCEPT ![i] =
                   Finished([@ EXCEPT !.fails = @ + 1], "ConnectionError")]
    /\ UNCHANGED <<is_running, logger, connVars, callCount, attemptCount,
                   reported, acked, brokerVars, handlerVars>>

\* connection._connect() raises: the wrapper sleeps.
ConnectFail(i) ==
    /\ calls[i].pc = "connecting"
    /\ calls' = [calls EXCEPT ![i] = [@ EXCEPT !.pc = "sleeping",
                                               !.fails = @ + 1]]
    /\ UNCHANGED <<is_running, logger, connVars, callCount, attemptCount,
                   reported, acked, brokerVars, handlerVars>>

\* Mutant of Report: the count of the first failure is reported each time.
Report_first(c) == 1

\* The retry_count of the report made for the call c.
Report(c) == c.retries

\* asyncio.sleep returns: retries += 1, the report, and the loop again.
Wake(i) ==
    /\ calls[i].pc = "sleeping"
    /\ LET c == [calls[i] EXCEPT !.retries = @ + 1]
           c1 == IF logger THEN [c EXCEPT !.reports = @ + 1] ELSE c
       IN  /\ reported' = IF logger THEN Report(c) ELSE reported
           /\ LoopOrRun(i, c1, connected, channel, openChannels)
    /\ UNCHANGED <<is_running, logger, connVars, callCount, brokerVars,
                   handlerVars>>

\* The awaited call has returned or raised: the caller goes on.
Return(i) ==
    /\ calls[i].pc = "done"
    /\ calls' = [calls EXCEPT ![i] = IdleCall]
    /\ UNCHANGED <<is_running, logger, connVars, callCount, attemptCount,
                   reported, acked, brokerVars, handlerVars>>

\* ------------------------------------------------- the steps of consume
BeforeReturns(i) ==
    /\ calls[i].pc = "before"
    /\ calls' = [calls EXCEPT ![i] = consume_qos(@, channel, openChannels)]
    /\ UNCHANGED <<is_running, logger, connVars, callCount, attemptCount,
                   reported, acked, brokerVars, handlerVars>>

BeforeRaises(i) ==
    /\ calls[i].pc = "before"
    /\ calls' = [calls EXCEPT ![i] = Finished(@, "HookError")]
    /\ UNCHANGED <<is_running, logger, connVars, callCount, attemptCount,
                   reported, acked, brokerVars, handlerVars>>

QosOk(i) ==
    /\ calls[i].pc = "qos"
    /\ calls[i].chanUsed \in openChannels
    /\ calls' = [calls EXCEPT ![i] =
                   consume_register(@, channel, openChannels)]
    /\ UNCHANGED <<is_running, logger, connVars, callCount, attemptCount,
                   reported, acked, brokerVars, handlerVars>>

QosFails(i) ==
    /\ calls[i].pc = "qos"
    /\ calls[i].chanUsed \notin openChannels
    /\ calls' = [calls EXCEPT ![i] = Finished(@, "ChannelClosed")]
    /\ UNCHANGED <<is_running, logger, connVars, callCount, attemptCount,
                   reported, acked, brokerVars, handlerVars>>

\* The broker registers the consumer and answers with its tag.
ConsumeOk(i) ==
    /\ calls[i].pc = "basic_consume"
    /\ calls[i].chanUsed \in openChannels
    /\ LET gen == calls[i].name = 0
           tag == IF gen THEN GeneratedTag(genCount + 1) ELSE calls[i].name
       IN  /\ genCount' = IF gen THEN genCount + 1 ELSE genCount
           /\ consumers' = consumers \cup {<<calls[i].chanUsed, tag>>}
           /\ calls' = [calls EXCEPT ![i] = consume_started(@, tag)]
    /\ UNCHANGED <<is_running, logger, connVars, callCount, attemptCount,
                   reported, acked, handlerVars>>

ConsumeFails(i) ==
    /\ calls[i].pc = "basic_consume"
    /\ calls[i].chanUsed \notin openChannels
    /\ calls' = [calls EXCEPT ![i] = Finished(@, "ChannelClosed")]
    /\ UNCHANGED <<is_running, logger, connVars, callCount, attemptCount,
                   reported, acked, brokerVars, handlerVars>>

StartReturns(i) ==
    /\ calls[i].pc = "on_start"
    /\ calls' = [calls EXCEPT ![i] = consume_return(@)]
    /\ UNCHANGED <<is_running, logger, connVars, callCount, attemptCount,
                   reported, acked, brokerVars, handlerVars>>

StartRaises(i) ==
    /\ calls[i].pc = "on_start"
    /\ calls' = [calls EXCEPT ![i] = Finished(@, "HookError")]
    /\ UNCHANGED <<is_running, logger, connVars, callCount, attemptCount,
                   reported, acked, brokerVars, handlerVars>>

\* ------------------------------------------------------------ stop_consumer
KnownTags == (ConsumerNames \ {0}) \cup {GeneratedTag(n) : n \in 1..genCount}

\* Mutant of StopConsumer: the handler tasks still pending are cancelled.
StopConsumer_cancelling(i) ==
    /\ CanCall(i)
    /\ callCount' = callCount + 1
    /\ \E t \in KnownTags :
          LET r == stop_consumer([NewCall("stop_consumer") EXCEPT !.tag = t],
                                 channel, openChannels, consumers)
          IN  /\ calls' = [calls EXCEPT ![i] = r.call]
              /\ consumers' = r.consumers
    /\ tasks' = [k \in 1..Len(tasks) |->
                    IF tasks[k].state \in {"done", "failed"} THEN tasks[k]
                    ELSE [tasks[k] EXCEPT !.state = "cancelled"]]
    /\ UNCHANGED <<is_running, logger, connVars, attemptCount, reported,
                   acked, genCount, delivered, envelopes, hmReturns,
                   onCurrent>>

\* A caller awaits stop_consumer(consumer_tag).
StopConsumer(i) ==
    /\ CanCall(i)
    /\ callCount' = callCount + 1
    /\ \E t \in KnownTags :
          LET r == stop_consumer([NewCall("stop_consumer") EXCEPT !.tag = t],
                                 channel, openChannels, consumers)
          IN  /\ calls' = [calls EXCEPT ![i] = r.call]
              /\ consumers' = r.consumers
    /\ UNCHANGED <<is_running, logger, connVars, attemptCount, reported,
                   acked, genCount, handlerVars>>

\* ------------------------------------------------------------- environment
\* The connection is lost: its channel dies with the consumers on it.
Drop ==
    /\ connected
    /\ connected' = FALSE
    /\ openChannels' = openChannels \ {channel}
    /\ consumers' = {r \in consumers : r[1] # channel}
    /\ UNCHANGED <<is_running, logger, channel, chanCount, callVars,
                   genCount, handlerVars>>

\* The application sets or clears is_running.
SetRunning ==
    /\ is_running' = ~is_running
    /\ UNCHANGED <<logger, connVars, callVars, brokerVars, handlerVars>>

\* ----------------------------------------------------- _ConsumptionHandler
NewTask(msg) ==
    [msg |-> msg, kwargs |-> msg, state |-> "created",
     oqmCalls |-> 0, oqmArg |-> NoMsg, raised |-> "none",
     errCalls |-> 0, errArg |-> "none", errMsg |-> NoMsg]

\* Mutant of handle_message: the task is created ahead of the earlier ones.
handle_message_ahead(ch, dtag) ==
    LET msg == [id |-> Len(envelopes) + 1, channel |-> ch,
                delivery_tag |-> dtag]
    IN  /\ envelopes' = Append(envelopes, msg)
        /\ tasks' = <<NewTask(msg)>> \o tasks
        /\ hmReturns' = Append(hmReturns, Len(tasks) + 1)

\* Mutant of handle_message: the callback is awaited, not spawned.
handle_message_awaited(ch, dtag) ==
    LET msg == [id |-> Len(envelopes) + 1, channel |-> ch,
                delivery_tag |-> dtag]
    IN  /\ envelopes' = Append(envelopes, msg)
        /\ tasks' = Append(tasks, [NewTask(msg) EXCEPT !.state = "running",
                                      !.oqmCalls = 1, !.oqmArg = msg])
        /\ hmReturns' = Append(hmReturns, Len(tasks) + 1)

\* Mutant of handle_message: the task is given the first message built.
handle_message_shared(ch, dtag) ==
    LET msg == [id |-> Len(envelopes) + 1, channel |-> ch,
                delivery_tag |-> dtag]
        first == IF envelopes = <<>> THEN msg ELSE envelopes[1]
    IN  /\ envelopes' = Append(envelopes, msg)
        /\ tasks' = Append(tasks, [NewTask(msg) EXCEPT !.kwargs = first])
        /\ hmReturns' = Append(hmReturns, Len(tasks) + 1)

\* handle_message(channel, body, envelope, properties): builds the message
\* and returns the task created for _handle_callback.
handle_message(ch, dtag) ==
    LET msg == [id |-> Len(envelopes) + 1, channel |-> ch,
                delivery_tag |-> dtag]
    IN  /\ envelopes' = Append(envelopes, msg)
        /\ tasks' = Append(tasks, NewTask(msg))
        /\ hmReturns' = Append(hmReturns, Len(tasks) + 1)

\* The broker delivers a message to a registered consumer.
Deliver ==
    /\ delivered < MaxDeliveries
    /\ \E r \in consumers :
          /\ r[1] \in openChannels
          /\ LET dtag == 1 + Cardinality({k \in 1..Len(envelopes) :
                                             envelopes[k].channel = r[1]})
             IN  handle_message(r[1], dtag)
          /\ onCurrent' = IF r[1] = channel
                          THEN onCurrent \cup {Len(envelopes) + 1}
                          ELSE onCurrent
    /\ delivered' = delivered + 1
    /\ UNCHANGED <<is_running, logger, connVars, callVars, brokerVars>>

\* _handle_callback: return await callback(**kwargs)
handle_callback_try(t) ==
    [t EXCEPT !.state = "running", !.oqmCalls = @ + 1, !.oqmArg = t.kwargs]

\* Mutant of handle_callback_except: the error is left in the task.
handle_callback_reraise(t, e) ==
    [t EXCEPT !.state = "failed", !.raised = e]

\* _handle_callback: except Exception as e
handle_callback_except(t, e) ==
    [t EXCEPT !.state = "errhook", !.raised = e, !.errCalls = @ + 1,
              !.errArg = e, !.errMsg = t.kwargs]

TaskStep(k, t) ==
    /\ tasks' = [tasks EXCEPT ![k] = t]
    /\ UNCHANGED <<is_running, logger, connVars, callVars, brokerVars,
                   delivered, envelopes, hmReturns, onCurrent>>

TaskStart(k) ==
    /\ tasks[k].state = "created"
    /\ TaskStep(k, handle_callback_try(tasks[k]))

TaskReturns(k) ==
    /\ tasks[k].state = "running"
    /\ TaskStep(k, [tasks[k] EXCEPT !.state = "done"])

TaskRaises(k) ==
    /\ tasks[k].state = "running"
    /\ \E e \in HandlerErrors : TaskStep(k, handle_callback_except(tasks[k], e))

HookReturns(k) ==
    /\ tasks[k].state = "errhook"
    /\ TaskStep(k, [tasks[k] EXCEPT !.state = "done"])

HookRaises(k) ==
    /\ tasks[k].state = "errhook"
    /\ TaskStep(k, [tasks[k] EXCEPT !.state = "failed"])

\* ------------------------------------------------------------ specification
\* A caller whose call has ended goes on before anything else happens: what
\* its record holds after the call has no effect on the program.
Quiet == \A i \in Callers : calls[i].pc # "done"

\* The application makes calls and the broker delivers, with the handler
\* tasks left pending.
GuardStep ==
    \/ \E i \in Callers : CallPut(i)
    \/ \E i \in Callers : CallConsume(i)
    \/ \E i \in Callers : CallAck(i)
    \/ \E i \in Callers : CallReject(i)
    \/ \E i \in Callers : ConnectOk(i)
    \/ \E i \in Callers : ConnectFail(i)
    \/ \E i \in Callers : Wake(i)
    \/ \E i \in Callers : BeforeReturns(i)
    \/ \E i \in Callers : BeforeRaises(i)
    \/ \E i \in Callers : QosOk(i)
    \/ \E i \in Callers : QosFails(i)
    \/ \E i \in Callers : ConsumeOk(i)
    \/ \E i \in Callers : ConsumeFails(i)
    \/ \E i \in Callers : StartReturns(i)
    \/ \E i \in Callers : StartRaises(i)
    \/ \E i \in Callers : StopConsumer(i)
    \/ Drop
    \/ SetRunning
    \/ Deliver

NextGuard ==
    \/ \E i \in Callers : Return(i)
    \/ Quiet /\ GuardStep

SpecGuard == Init /\ [][NextGuard]_vars

\* The application only publishes.
RetryStep ==
    \/ \E i \in Callers : CallPut(i)
    \/ \E i \in Callers : ConnectOk(i)
    \/ \E i \in Callers : ConnectFail(i)
    \/ \E i \in Callers : Wake(i)
    \/ Drop
    \/ SetRunning

NextRetry ==
    \/ \E i \in Callers : Return(i)
    \/ Quiet /\ RetryStep

SpecRetry == Init /\ [][NextRetry]_vars

\* The event loop resumes a coroutine when the connect attempt or the sleep
\* it awaits has ended, and a caller when its call has.
RetryFairness ==
    \A i \in Callers :
        /\ WF_vars(Return(i))
        /\ WF_vars(Quiet /\ Wake(i))
        /\ WF_vars(Quiet /\ (ConnectOk(i) \/ ConnectFail(i)))

SpecRetryFair == SpecRetry /\ RetryFairness

\* The application consumes once and acknowledges or rejects what the broker
\* delivers, across losses of the connection.
AckStep ==
    \/ \E i \in Callers : callCount = 0 /\ CallConsume(i)
    \/ \E i \in Callers : CallAck(i)
    \/ \E i \in Callers : CallReject(i)
    \/ \E i \in Callers : ConnectOk(i)
    \/ \E i \in Callers : BeforeReturns(i)
    \/ \E i \in Callers : QosOk(i)
    \/ \E i \in Callers : ConsumeOk(i)
    \/ \E i \in Callers : StartReturns(i)
    \/ Drop
    \/ Deliver

NextAck ==
    \/ \E i \in Callers : Return(i)
    \/ Quiet /\ AckStep

SpecAck == Init /\ [][NextAck]_vars

\* The application publishes values of every kind.
PutStep ==
    \/ \E i \in Callers : CallPutAny(i)
    \/ \E i \in Callers : ConnectOk(i)
    \/ Drop

NextPut ==
    \/ \E i \in Callers : Return(i)
    \/ Quiet /\ PutStep

SpecPut == Init /\ [][NextPut]_vars

\* The application publishes, consumes one queue at a time and stops
\* consumers; nothing is delivered.
ClientStep ==
    \/ \E i \in Callers :
          /\ \A j \in Callers : calls[j].op # "consume"
          /\ CallConsume(i)
    \/ \E i \in Callers : CallPut(i)
    \/ \E i \in Callers : ConnectOk(i)
    \/ \E i \in Callers : ConnectFail(i)
    \/ \E i \in Callers : Wake(i)
    \/ \E i \in Callers : BeforeReturns(i)
    \/ \E i \in Callers : BeforeRaises(i)
    \/ \E i \in Callers : QosOk(i)
    \/ \E i \in Callers : QosFails(i)
    \/ \E i \in Callers : ConsumeOk(i)
    \/ \E i \in Callers : ConsumeFails(i)
    \/ \E i \in Callers : StartReturns(i)
    \/ \E i \in Callers : StartRaises(i)
    \/ \E i \in Callers : StopConsumer(i)
    \/ Drop
    \/ SetRunning

NextClient ==
    \/ \E i \in Callers : Return(i)
    \/ Quiet /\ ClientStep

SpecClient == Init /\ [][NextClient]_vars

\* The application consumes once and stops consumers, the broker delivers
\* and the handler tasks run.
HandlerStep ==
    \/ \E i \in Callers : callCount = 0 /\ CallConsume(i)
    \/ \E i \in Callers : ConnectOk(i)
    \/ \E i \in Callers : BeforeReturns(i)
    \/ \E i \in Callers : QosOk(i)
    \/ \E i \in Callers : ConsumeOk(i)
    \/ \E i \in Callers : StartReturns(i)
    \/ \E i \in Callers : StopConsumer(i)
    \/ Deliver
    \/ \E k \in 1..Len(tasks) : TaskStart(k)
    \/ \E k \in 1..Len(tasks) : TaskReturns(k)
    \/ \E k \in 1..Len(tasks) : TaskRaises(k)
    \/ \E k \in 1..Len(tasks) : HookReturns(k)
    \/ \E k \in 1..Len(tasks) : HookRaises(k)

NextHandler ==
    \/ \E i \in Callers : Return(i)
    \/ Quiet /\ HandlerStep

SpecHandler == Init /\ [][NextHandler]_vars

\* ------------------------------------------------------------------ claims
GuardedOps == {"put", "consume", "ack", "reject"}

\* C1: the wrapped operation of a guarded call (put, consume, ack, reject)
\* starts only while the connection reports connected.
C1_OperationStartsConnected ==
    \A i \in Callers :
        (calls[i].op \in GuardedOps /\ calls[i].opStarts > 0)
            => calls[i].connAtStart

PutBoth(c) == c.op = "put" /\ Truthy(c.data) /\ Truthy(c.ser.text)

\* C2: a put with both data and serialized_data non-empty fails with
\* ValueError at once, in every connection state, with no connect attempt
\* and no publish made for it.
C2_PutBothFailsBeforeNetwork ==
    \A i \in Callers :
        PutBoth(calls[i]) =>
            /\ calls[i].pc = "done"
            /\ calls[i].result = "ValueError"
            /\ calls[i].attempts = 0
            /\ calls[i].published = NoPayload

\* C3: for every delivery whose on_queue_message raises,
\* on_message_handle_error is called exactly once, with the error raised
\* and the message that on_queue_message was given, and handle_message has
\* returned the task to the broker-facing callback without failing.
C3_HandlerErrorRedirected ==
    /\ Len(hmReturns) = delivered
    /\ \A k \in 1..Len(tasks) :
          /\ hmReturns[k] = k
          /\ tasks[k].raised = "none" => tasks[k].errCalls = 0
          /\ tasks[k].raised # "none" =>
                /\ tasks[k].errCalls = 1
                /\ tasks[k].errArg = tasks[k].raised
                /\ tasks[k].errMsg = tasks[k].oqmArg
                /\ tasks[k].errMsg = envelopes[k]
                /\ tasks[k].state \in {"errhook", "done", "failed"}

C3_Witness ==
    \E k \in 1..Len(tasks) :
        /\ tasks[k].raised = "RuntimeError"
        /\ tasks[k].state = "done"

\* C4: handle_message spawns the handler task and returns its handle without
\* running on_queue_message, and it leaves the tasks of earlier deliveries as
\* they are, whatever their state; a task steps without regard to the others.
C4_SpawnedNotAwaited ==
    [][ /\ Len(tasks') > Len(tasks) =>
            /\ Len(tasks') = Len(tasks) + 1
            /\ tasks'[Len(tasks')].state = "created"
            /\ tasks'[Len(tasks')].oqmCalls = 0
            /\ hmReturns' = Append(hmReturns, Len(tasks'))
            /\ \A k \in 1..Len(tasks) : tasks'[k] = tasks[k]
        /\ \A k \in 1..Len(tasks) :
              tasks'[k] # tasks[k] =>
                  \A j \in 1..Len(tasks) : j # k => tasks'[j] = tasks[j]
      ]_vars

C4_Witness ==
    /\ Len(tasks) >= 2
    /\ tasks[1].state = "running"
    /\ tasks[2].state = "done"
    /\ tasks[2].raised = "none"

\* C5: every delivery gets exactly one message and exactly one task, which
\* calls on_queue_message at most once, and exactly once when it has
\* started, with the message of its own delivery.
C5_OneTaskPerDelivery ==
    /\ Len(envelopes) = delivered
    /\ Len(tasks) = delivered
    /\ \A k \in 1..Len(tasks) :
          /\ k <= Len(envelopes)
          /\ envelopes[k].id = k
          /\ tasks[k].kwargs = envelopes[k]
          /\ tasks[k].oqmCalls = IF tasks[k].state = "created" THEN 0 ELSE 1
          /\ tasks[k].state # "created" => tasks[k].oqmArg = envelopes[k]
          /\ \A j \in 1..Len(tasks) :
                j # k => tasks[j].kwargs # tasks[k].kwargs

C5_Witness ==
    /\ delivered = 2
    /\ \A k \in 1..Len(tasks) : tasks[k].state = "done"

\* The step in which caller i wakes from the retry sleep.
Wakes(i) == calls[i].pc = "sleeping" /\ calls'[i].pc # "sleeping"

\* No caller but i is in the retry loop: the calls are consecutive.
Alone(i) ==
    \A j \in Callers : j # i => calls[j].pc \notin {"connecting", "sleeping"}

\* C6 as stated: across consecutive guarded calls, every report to the
\* logger carries a larger retry_count than the report before it.
C6_CountsIncreaseAcrossCalls ==
    [][\A i \in Callers :
          (logger /\ Wakes(i) /\ Alone(i)) => reported' > reported]_vars

\* C6, amended: with a logger, every failed connect attempt is reported
\* exactly once, after the sleep, and the k-th report of one call carries
\* retry_count k; the count starts again with every call.
C6_CountsIncreaseWithinCall ==
    /\ [](\A i \in Callers :
            /\ calls[i].retries =
                 calls[i].fails - (IF calls[i].pc = "sleeping" THEN 1 ELSE 0)
            /\ calls[i].reports = IF logger THEN calls[i].retries ELSE 0)
    /\ [][\A i \in Callers :
            (logger /\ Wakes(i)) =>
                /\ calls'[i].reports = calls[i].reports + 1
                /\ reported' = calls[i].reports + 1]_vars

C6_Witness ==
    \E i \in Callers : logger /\ calls[i].reports = 2 /\ reported = 2

\* C7: while is_running is cleared no call starts a connect attempt; a call
\* that wakes from its retry sleep then leaves the loop and starts the
\* wrapped operation, connected or not; no call starts it twice.
C7_ClearedFlagEndsLoop ==
    /\ [](\A i \in Callers :
            /\ calls[i].opStarts <= 1
            /\ (calls[i].op \in GuardedOps /\ calls[i].pc = "done")
                   => calls[i].opStarts = 1)
    /\ [][~is_running =>
            /\ attemptCount' = attemptCount
            /\ \A i \in Callers :
                  /\ calls'[i].attempts <= calls[i].attempts
                  /\ Wakes(i) =>
                        /\ calls'[i].opStarts = 1
                        /\ calls'[i].connAtStart = connected]_vars

C7_Witness ==
    \E i \in Callers :
        /\ ~is_running
        /\ calls[i].retries >= 1
        /\ calls[i].opStarts = 1
        /\ ~calls[i].connAtStart

\* C8: stop_consumer without a channel raises ConnectionError, whatever
\* is_running is, with no connect attempt and no basic_cancel, and leaves
\* the connection and the registrations as they are.
C8_StopWithoutChannelFails ==
    /\ [](\A i \in Callers :
            (calls[i].op = "stop_consumer" /\ channel = NoChannel) =>
                /\ calls[i].pc = "done"
                /\ calls[i].result = "ConnectionError"
                /\ calls[i].attempts = 0
                /\ calls[i].trace = <<>>)
    /\ [][\A i \in Callers :
            (calls'[i].op = "stop_consumer" /\ calls[i].op # "stop_consumer"
                /\ channel = NoChannel) =>
                    /\ UNCHANGED <<connVars, brokerVars, attemptCount>>]_vars

C8_Witness ==
    \E i \in Callers :
        /\ calls[i].op = "stop_consumer"
        /\ calls[i].result = "ConnectionError"
        /\ ~is_running

ConsumeSteps == <<"before", "qos", "basic_consume", "on_start">>

\* C9: consume calls on_before_start_consumption, basic_qos with
\* prefetch_count, basic_consume and on_consumption_start in this order,
\* each once; on_consumption_start gets the tag of a registration the
\* broker has made, and that tag is returned; after a failed step no
\* later step is made.
C9_ConsumeStepsInOrder ==
    /\ [](\A i \in Callers :
            LET c == calls[i]
                n == Len(c.trace)
            IN  c.op = "consume" =>
                    /\ c.trace = SubSeq(ConsumeSteps, 1, n)
                    /\ n >= 2 => c.qosArg = PrefetchCount
                    /\ n = 4 => c.startTag = c.tag
                    /\ c.pc = "before" <=> (n = 1 /\ c.result = "none")
                    /\ c.pc = "qos" <=> (n = 2 /\ c.result = "none")
                    /\ c.pc = "basic_consume" <=> (n = 3 /\ c.result = "none")
                    /\ c.pc = "on_start" <=> (n = 4 /\ c.result = "none")
                    /\ c.result = "ok" =>
                          (n = 4 /\ c.ret = c.startTag /\ c.ret # 0))
    /\ [][\A i \in Callers :
            (calls'[i].op = "consume" /\ Len(calls'[i].trace) = 4
                /\ Len(calls[i].trace) = 3) =>
                    <<calls[i].chanUsed, calls'[i].startTag>> \in consumers']_vars

C9_Witness ==
    \E i \in Callers :
        /\ calls[i].op = "consume"
        /\ calls[i].result = "ok"
        /\ calls[i].name = 0
        /\ calls[i].ret = GeneratedTag(1)

\* C10: once a reconnect has replaced the connection's channel, ack or reject
\* of a message delivered before never completes as a success.
C10_StaleAckFails ==
    \A i \in Callers :
        (calls[i].op \in {"ack", "reject"} /\ calls[i].pc = "done"
            /\ calls[i].msg.id \in onCurrent
            /\ calls[i].msg.channel # channel)
                => calls[i].result # "ok"

\* C11: there is at most one active registration per consumer tag, and a
\* tag for which stop_consumer has succeeded is no longer registered.
C11_OneRegistrationPerTag ==
    /\ \A r1 \in consumers : \A r2 \in consumers : r1[2] = r2[2] => r1 = r2
    /\ \A i \in Callers :
          (calls[i].op = "stop_consumer" /\ calls[i].result = "ok") =>
              \A r \in consumers : r[2] # calls[i].tag

\* C12: a failed connect attempt is never the outcome of a guarded call: the
\* call sleeps, then tries again or starts the wrapped operation, and every
\* outcome it has is the outcome of the wrapped operation.
C12_ConnectFailureNotSurfaced ==
    /\ [](\A i \in Callers :
            calls[i].op \in GuardedOps =>
                /\ calls[i].pc \in {"connecting", "sleeping"} =>
                      (calls[i].result = "none" /\ calls[i].opStarts = 0)
                /\ calls[i].result # "none" => calls[i].opStarts = 1
                /\ calls[i].result # "ConnectionError")
    /\ [][\A i \in Callers :
            /\ (calls[i].pc = "connecting" /\ calls'[i] # calls[i]) =>
                  \/ calls'[i].pc = "sleeping" /\ calls'[i].result = "none"
                  \/ connected' /\ calls'[i].opStarts = 1
            /\ Wakes(i) =>
                  IF is_running /\ ~connected
                  THEN /\ calls'[i].pc = "connecting"
                       /\ calls'[i].attempts = calls[i].attempts + 1
                  ELSE calls'[i].opStarts = 1]_vars

C12_Witness ==
    \E i \in Callers :
        /\ calls[i].fails = 1
        /\ calls[i].attempts = 2
        /\ calls[i].result = "ok"

InLoop(i) == calls[i].pc \in {"connecting", "sleeping"}

\* The bound on connect attempts keeps caller i from trying again.
Halted(i) == calls[i].pc = "sleeping" /\ attemptCount = MaxAttempts

\* C13: a call leaves the retry loop only when the connection is connected
\* or is_running is cleared, so it stays pending, with the wrapped operation
\* not started, while is_running holds and every attempt fails; and a call
\* in the loop goes on until it starts the wrapped operation and returns.
C13_SuccessfulOrPending ==
    /\ [][\A i \in Callers :
            (InLoop(i) /\ ~InLoop(i)') =>
                /\ connected' \/ ~is_running
                /\ calls'[i].opStarts = 1]_vars
    /\ [](\A i \in Callers : InLoop(i) => calls[i].opStarts = 0)
    /\ \A i \in Callers : InLoop(i) ~> (~InLoop(i) \/ Halted(i))

C13_Witness ==
    \E i \in Callers :
        /\ calls[i].pc = "sleeping"
        /\ calls[i].fails = 2
        /\ is_running
        /\ ~connected

\* The frame that ack or reject of the call record c writes.
FrameOf(c) ==
    <<c.msg.channel, c.msg.delivery_tag,
      IF c.op = "ack" THEN "ack" ELSE "reject">>

\* C14: ack(msg) and reject(msg) write their frame on the channel msg was
\* delivered on, with msg's delivery tag, whatever the connection's channel
\* is; no other frame is written.
C14_AckOnMessageChannel ==
    /\ [](\A i \in Callers :
            (calls[i].op \in {"ack", "reject"} /\ calls[i].opStarts = 1) =>
                /\ calls[i].chanUsed = calls[i].msg.channel
                /\ calls[i].result = "ok" => FrameOf(calls[i]) \in acked)
    /\ [][acked' # acked =>
            \E i \in Callers :
                /\ calls'[i].op \in {"ack", "reject"}
                /\ calls[i].opStarts = 0
                /\ calls'[i].opStarts = 1
                /\ acked' = acked \cup {FrameOf(calls'[i])}]_vars

C14_Witness ==
    \E i \in Callers :
        /\ calls[i].op \in {"ack", "reject"}
        /\ calls[i].opStarts = 1
        /\ channel # NoChannel
        /\ calls[i].msg.channel # channel
        /\ calls[i].chanUsed = calls[i].msg.channel

\* The steps of consume that write on the channel.
Issued(c) == {c.trace[k] : k \in 1..Len(c.trace)} \cap {"qos", "basic_consume"}

\* C15: a connect made by the guard issues neither basic_qos nor
\* basic_consume and leaves the registrations as they are, with none on the
\* new channel; a registration is made only by the basic_consume step of a
\* consume call, on the channel that call uses.
C15_ReconnectKeepsRegistrationsLost ==
    [][/\ chanCount' # chanCount =>
            /\ consumers' = consumers
            /\ genCount' = genCount
            /\ \A r \in consumers' : r[1] # channel'
            /\ \A i \in Callers : Issued(calls'[i]) \subseteq Issued(calls[i])
       /\ \A r \in consumers' \ consumers :
            \E i \in Callers :
                /\ calls[i].op = "consume"
                /\ calls[i].pc = "basic_consume"
                /\ calls'[i].pc = "on_start"
                /\ r = <<calls[i].chanUsed, calls'[i].tag>>]_vars

C15_Witness ==
    /\ connected
    /\ chanCount = 2
    /\ genCount = 1
    /\ consumers = {}
    /\ \A i \in Callers : calls[i].op # "consume"

\* C16: stop_consumer leaves the handler tasks as they are, pending ones
\* included: it neither cancels nor awaits them, and each can still take
\* its next step once stop_consumer has returned.
C16_StopLeavesTasks ==
    /\ [][\A i \in Callers :
            (calls[i].op # "stop_consumer" /\ calls'[i].op = "stop_consumer")
                => /\ tasks' = tasks
                   /\ hmReturns' = hmReturns
                   /\ envelopes' = envelopes]_vars
    /\ [](\A k \in 1..Len(tasks) :
            /\ tasks[k].state \in
                  {"created", "running", "errhook", "done", "failed"}
            /\ tasks[k].state = "created" => ENABLED TaskStart(k)
            /\ tasks[k].state = "running" => ENABLED TaskReturns(k)
            /\ tasks[k].state = "errhook" => ENABLED HookReturns(k))

C16_Witness ==
    /\ \E i \in Callers :
          /\ calls[i].op = "stop_consumer"
          /\ calls[i].result = "ok"
    /\ consumers = {}
    /\ Len(tasks) = 2
    /\ tasks[1].state = "running"
    /\ tasks[2].state = "created"

\* serialized_data coerced to bytes.
Coerced(s) == IF s.kind = "bytes" THEN s ELSE Bytes(s.text)

\* C17: a put that is given data and no serialized_data publishes the bytes
\* of serialize(data), and a put that is given serialized_data and no data
\* publishes serialized_data coerced to bytes.
C17_PutPublishesPayload ==
    \A i \in Callers :
        (calls[i].op = "put" /\ calls[i].result = "ok") =>
            /\ (calls[i].data # "None" /\ calls[i].ser = Str("")) =>
                  calls[i].published = Bytes(serialize(calls[i].data).text)
            /\ (calls[i].data = "None" /\ calls[i].ser # Str("")) =>
                  calls[i].published = Coerced(calls[i].ser)

\* Caller i makes a new call or wakes from its retry sleep.
TestsLoop(i) ==
    /\ calls[i].pc \in {"idle", "sleeping"}
    /\ calls'[i] # calls[i]
    /\ calls'[i].op \in GuardedOps

\* Caller i's connect attempt succeeds.
Connects(i) ==
    /\ calls[i].pc = "connecting"
    /\ calls'[i].pc # "connecting"
    /\ calls'[i].fails = calls[i].fails

\* C18: connect attempts are not shared: a caller that finds the client
\* running and not connected starts an attempt of its own, whatever
\* attempts of other callers are in flight, and every attempt that
\* succeeds connects anew, on a new channel, also when an earlier attempt
\* has connected.
C18_AttemptsNotShared ==
    [][\A i \in Callers :
          /\ (TestsLoop(i) /\ is_running /\ ~connected) =>
                /\ calls'[i].pc = "connecting"
                /\ calls'[i].attempts = calls[i].attempts + 1
                /\ attemptCount' = attemptCount + 1
          /\ Connects(i) =>
                /\ connected'
                /\ channel' = chanCount + 1
                /\ channel' # channel
                /\ chanCount' = chanCount + 1]_vars

\* Two callers have connected for one outage: the channel of the first is
\* still open when the second's has replaced it.
C18_Witness ==
    /\ connected
    /\ channel = 2
    /\ openChannels = {1, 2}
    /\ attemptCount = 2
    /\ \A i \in Callers : calls[i].fails = 0

\* C19: the k-th task created is the task of the k-th delivery, so on one
\* channel the tasks are created in the order of the delivery tags; a task
\* that runs can complete whatever the state of the tasks created before it.
C19_SpawnedInDeliveryOrder ==
    /\ Len(tasks) = Len(envelopes)
    /\ \A k \in 1..Len(tasks) :
          /\ tasks[k].msg = envelopes[k]
          /\ tasks[k].msg.id = k
          /\ \A j \in 1..(k - 1) :
                tasks[j].msg.channel = tasks[k].msg.channel =>
                    tasks[j].msg.delivery_tag < tasks[k].msg.delivery_tag
          /\ tasks[k].state = "running" => ENABLED TaskReturns(k)

C19_Witness ==
    /\ Len(tasks) = 2
    /\ tasks[1].msg.channel = tasks[2].msg.channel
    /\ tasks[1].msg.delivery_tag = 1
    /\ tasks[2].msg.delivery_tag = 2
    /\ tasks[2].state = "done"
    /\ tasks[1].state = "created"

\* C20: a connect attempt starts only where is_running holds and the
\* connection is not connected; a caller that calls, or wakes from its
\* retry sleep, while the connection is connected makes no attempt and
\* starts the wrapped operation.
C20_AttemptsOnlyWhenDisconnected ==
    [][\A i \in Callers :
          /\ calls'[i].attempts > calls[i].attempts =>
                /\ is_running
                /\ ~connected
                /\ calls'[i].pc = "connecting"
          /\ (TestsLoop(i) /\ connected) =>
                /\ calls'[i].attempts =
                      (IF calls[i].pc = "idle" THEN 0 ELSE calls[i].attempts)
                /\ calls'[i].opStarts = 1
                /\ calls'[i].connAtStart
                /\ UNCHANGED connVars]_vars

\* A caller whose attempt failed wakes after another caller has connected.
C20_Witness ==
    \E i \in Callers :
        /\ calls[i].fails = 1
        /\ calls[i].attempts = 1
        /\ calls[i].opStarts = 1
        /\ calls[i].connAtStart
        /\ is_running

====
